---- MODULE Spec2Model ----
(***************************************************************************)
(* Model of src/main.py: the ConnectionManager (registry of websockets and *)
(* broadcast fan-out) and the websocket_endpoint coroutine that drives it. *)
(*                                                                         *)
(* asyncio runs the handlers cooperatively on one thread: the code between *)
(* two awaits that really suspend is one atomic step.  Every action below  *)
(* is one such step of one handler, of one send task created by            *)
(* asyncio.gather, or of the environment (peer, network, canceller).       *)
(***************************************************************************)
EXTENDS Naturals, Integers, Sequences, FiniteSets, TLC

\* ---------------------------------------------------------------- bounds
MaxEvents == 3       \* events the environment injects over a run: frames sent
                     \* and closes by the peers, failed or slow awaits, cancels
MaxLiveEvents == 2   \* the same, for the runs checked for liveness (LiveSpec)
MaxCalls == 3        \* disconnect calls per websocket on the bare registry
                     \* (RegistrySpec)

\* The websockets the server is offered: A, B and C of the end-to-end
\* scenario, numbered in the order they are opened.
Conns == {1, 2, 3}
None == 0            \* the exclude=None argument of broadcast
Data == {"hi"}

\* The client_id path parameter of each websocket.  Websockets 1 and 2 are
\* opened with the same label, the others with labels of their own.
client_id(c) == IF c <= 2 THEN 1 ELSE c - 1

\* ------------------------------------------------------- message texts
NoText == [kind |-> "none", id |-> 0, data |-> ""]
JoinedText(id) == [kind |-> "joined", id |-> id, data |-> ""]
EchoText(d) == [kind |-> "You wrote", id |-> 0, data |-> d]
SaysText(id, d) == [kind |-> "says", id |-> id, data |-> d]
LeftText(id) == [kind |-> "left the chat", id |-> id, data |-> ""]
LeftErrorText(id) == [kind |-> "left the chat(error)", id |-> id, data |-> ""]

VARIABLES
    active_connections,  \* ConnectionManager.active_connections
    pc,          \* where each websocket_endpoint coroutine is suspended
    data,        \* the text the handler read last
    echo,        \* the text of the direct send to the sender, while in flight
    snap,        \* list(self.active_connections) of the handler's last broadcast
    excl,        \* the exclude argument of that broadcast
    text,        \* the message argument of that broadcast
    send_tasks,  \* the targets of send_tasks, in list order
    task_state,  \* the state of each send task handed to asyncio.gather
    cause,       \* the exception that took the handler out of its loop
    registered,  \* history: connect was called and disconnect not since
    nDisconnect, \* history: calls of manager.disconnect(websocket)
    nDepart,     \* history: broadcasts of a departure notice
    nBroadcast,  \* history: calls of manager.broadcast by the handler
    nRead,       \* history: text frames the handler read
    nEcho,       \* history: echoes that completed
    cancelled,   \* history: the handler's task was cancelled
    events,      \* environment events so far (bounded by MaxEvents)
    close_queued \* the peer's close has arrived and waits for the next read

vars == <<active_connections, pc, data, echo, snap, excl, text, send_tasks, task_state,
          cause, registered, nDisconnect, nDepart, nBroadcast, nRead, nEcho,
          cancelled, events, close_queued>>

Suspended == {"accepting", "bcast_join", "reading", "echoing", "bcast_msg",
              "closing", "bcast_left"}
InBroadcast == {"bcast_join", "bcast_msg", "bcast_left"}
Settled == {"ok", "failed"}

\* ------------------------------------------------------------- helpers
RECURSIVE SetToSeq(_)
\* list(s): the members of a set in a list, each once (ascending here).
SetToSeq(s) ==
    IF s = {} THEN <<>>
    ELSE LET m == CHOOSE x \in s : \A y \in s : x <= y
         IN <<m>> \o SetToSeq(s \ {m})

Range(q) == {q[i] : i \in 1..Len(q)}

Count(q, x) == Cardinality({i \in 1..Len(q) : q[i] = x})

\* ---------------------------------------------------- ConnectionManager
\* connect, after the accept: self.active_connections.add(websocket)
connect(set, ws) == set \cup {ws}

\* A disconnect that forgets the discard.
disconnect_keep(set, ws) == set

\* disconnect: self.active_connections.discard(websocket)
disconnect(set, ws) == set \ {ws}

\* health: len(manager.active_connections)
health == Cardinality(active_connections)

\* A copy that misses the member added last.
Snapshot_torn(set) ==
    IF Cardinality(set) > 1 THEN set \ {CHOOSE x \in set : \A y \in set : y <= x} ELSE set

\* list(self.active_connections): the point-in-time copy broadcast iterates
Snapshot(set) == set

\* A loop that does not skip exclude.
BuildSendTasks_all(members, exclude) == SetToSeq(members)

\* A loop that compares by the client's label: it skips every member opened
\* with the client_id of exclude.
BuildSendTasks_by_label(members, exclude) ==
    SelectSeq(SetToSeq(members),
              LAMBDA conn : ~(exclude # None /\ client_id(conn) = client_id(exclude)))

\* the for loop of broadcast: one conn.send_text(message) per member of the
\* copy, skipping the member that is exclude
BuildSendTasks(members, exclude) ==
    SelectSeq(SetToSeq(members), LAMBDA conn : ~(exclude # None /\ conn = exclude))

\* broadcast up to its await: returns at once on an empty registry or an
\* empty send_tasks (the handler goes on to nextPc), else hands the tasks to
\* asyncio.gather and suspends (waitPc).
broadcast(c, set, message, exclude, waitPc, nextPc) ==
    LET members == Snapshot(set)
        tasks == IF set = {} THEN <<>> ELSE BuildSendTasks(members, exclude)
    IN /\ snap' = [snap EXCEPT ![c] = members]
       /\ excl' = [excl EXCEPT ![c] = exclude]
       /\ text' = [text EXCEPT ![c] = message]
       /\ send_tasks' = [send_tasks EXCEPT ![c] = tasks]
       /\ task_state' = [task_state EXCEPT ![c] = [i \in 1..Len(tasks) |-> "pending"]]
       /\ nBroadcast' = [nBroadcast EXCEPT ![c] = @ + 1]
       /\ pc' = [pc EXCEPT ![c] = IF tasks = <<>> THEN nextPc ELSE waitPc]

Init ==
    /\ active_connections = {}
    /\ pc = [c \in Conns |-> "new"]
    /\ data = [c \in Conns |-> ""]
    /\ echo = [c \in Conns |-> NoText]
    /\ snap = [c \in Conns |-> {}]
    /\ excl = [c \in Conns |-> None]
    /\ text = [c \in Conns |-> NoText]
    /\ send_tasks = [c \in Conns |-> <<>>]
    /\ task_state = [c \in Conns |-> <<>>]
    /\ cause = [c \in Conns |-> "none"]
    /\ registered = [c \in Conns |-> FALSE]
    /\ nDisconnect = [c \in Conns |-> 0]
    /\ nDepart = [c \in Conns |-> 0]
    /\ nBroadcast = [c \in Conns |-> 0]
    /\ nRead = [c \in Conns |-> 0]
    /\ nEcho = [c \in Conns |-> 0]
    /\ cancelled = [c \in Conns |-> FALSE]
    /\ events = 0
    /\ close_queued = [c \in Conns |-> FALSE]

\* --------------------------------------------- websocket_endpoint steps
\* A client opens a websocket: the handler starts and suspends in
\* `await websocket.accept()` (inside manager.connect).  The websockets are
\* numbered in the order they are opened.
Open(c) ==
    /\ pc[c] = "new"
    /\ \A b \in Conns : b < c => pc[b] # "new"
    /\ pc' = [pc EXCEPT ![c] = "accepting"]
    /\ UNCHANGED <<active_connections, data, echo, snap, excl, text, send_tasks, task_state,
                   cause, registered, nDisconnect, nDepart, nBroadcast, nRead,
                   nEcho, cancelled, events, close_queued>>

\* A join broadcast that leaves out the websocket that joins.
AcceptDone_exclude_self(c) ==
    /\ pc[c] = "accepting"
    /\ active_connections' = connect(active_connections, c)
    /\ registered' = [registered EXCEPT ![c] = TRUE]
    /\ broadcast(c, active_connections', JoinedText(client_id(c)), c,
                 "bcast_join", "reading")
    /\ UNCHANGED <<data, echo, cause, nDisconnect, nDepart, nRead, nEcho, cancelled, events,
                   close_queued>>

\* accept returns: connect adds the websocket, and the handler runs on,
\* without suspending, into the join broadcast up to its gather.
AcceptDone(c) ==
    /\ pc[c] = "accepting"
    /\ active_connections' = connect(active_connections, c)
    /\ registered' = [registered EXCEPT ![c] = TRUE]
    /\ broadcast(c, active_connections', JoinedText(client_id(c)), None,
                 "bcast_join", "reading")
    /\ UNCHANGED <<data, echo, cause, nDisconnect, nDepart, nRead, nEcho, cancelled, events,
                   close_queued>>

\* The departure broadcast taken before the disconnect.
on_disconnect_late(c) ==
    /\ active_connections' = disconnect(active_connections, c)
    /\ registered' = [registered EXCEPT ![c] = FALSE]
    /\ nDisconnect' = [nDisconnect EXCEPT ![c] = @ + 1]
    /\ nDepart' = [nDepart EXCEPT ![c] = @ + 1]
    /\ broadcast(c, active_connections, LeftText(client_id(c)), None,
                 "bcast_left", "done")

\* except WebSocketDisconnect: manager.disconnect(websocket), then the
\* departure broadcast up to its gather.
on_disconnect(c) ==
    /\ active_connections' = disconnect(active_connections, c)
    /\ registered' = [registered EXCEPT ![c] = FALSE]
    /\ nDisconnect' = [nDisconnect EXCEPT ![c] = @ + 1]
    /\ nDepart' = [nDepart EXCEPT ![c] = @ + 1]
    /\ broadcast(c, active_connections', LeftText(client_id(c)), None,
                 "bcast_left", "done")

\* the finally of except Exception: manager.disconnect(websocket), then the
\* error-flavoured departure broadcast up to its gather.
on_error_finally(c) ==
    /\ active_connections' = disconnect(active_connections, c)
    /\ registered' = [registered EXCEPT ![c] = FALSE]
    /\ nDisconnect' = [nDisconnect EXCEPT ![c] = @ + 1]
    /\ nDepart' = [nDepart EXCEPT ![c] = @ + 1]
    /\ broadcast(c, active_connections', LeftErrorText(client_id(c)), None,
                 "bcast_left", "done")

\* except Exception, up to `await websocket.close()`
on_error(c) ==
    /\ pc' = [pc EXCEPT ![c] = "closing"]
    /\ UNCHANGED <<active_connections, snap, excl, text, send_tasks, task_state,
                   registered, nDisconnect, nDepart, nBroadcast>>

\* receive_text returns a frame: the echo write to the sender is started.
ReadText(c, d) ==
    /\ pc[c] = "reading"
    /\ events < MaxEvents
    /\ events' = events + 1
    /\ data' = [data EXCEPT ![c] = d]
    /\ echo' = [echo EXCEPT ![c] = EchoText(d)]
    /\ nRead' = [nRead EXCEPT ![c] = @ + 1]
    /\ pc' = [pc EXCEPT ![c] = "echoing"]
    /\ UNCHANGED <<active_connections, snap, excl, text, send_tasks, task_state, cause,
                   registered, nDisconnect, nDepart, nBroadcast, nEcho, cancelled,
                   close_queued>>

\* receive_text raises WebSocketDisconnect: the peer closed.
ReadClosed(c) ==
    /\ pc[c] = "reading"
    /\ events < MaxEvents
    /\ events' = events + 1
    /\ cause' = [cause EXCEPT ![c] = "closed"]
    /\ on_disconnect(c)
    /\ UNCHANGED <<data, echo, nRead, nEcho, cancelled, close_queued>>

\* receive_text raises another exception (a frame that is not text).
ReadError(c) ==
    /\ pc[c] = "reading"
    /\ events < MaxEvents
    /\ events' = events + 1
    /\ cause' = [cause EXCEPT ![c] = "read_error"]
    /\ on_error(c)
    /\ UNCHANGED <<data, echo, nRead, nEcho, cancelled, close_queued>>

\* The broadcast of the message with exclude left at None.
EchoDone_to_all(c) ==
    /\ pc[c] = "echoing"
    /\ nEcho' = [nEcho EXCEPT ![c] = @ + 1]
    /\ echo' = [echo EXCEPT ![c] = NoText]
    /\ broadcast(c, active_connections, SaysText(client_id(c), data[c]), None,
                 "bcast_msg", "reading")
    /\ UNCHANGED <<active_connections, data, cause, registered, nDisconnect, nDepart,
                   nRead, cancelled, events, close_queued>>

\* The broadcast of the message started and not awaited: the handler goes
\* back to its read at once.
EchoDone_detached(c) ==
    /\ pc[c] = "echoing"
    /\ nEcho' = [nEcho EXCEPT ![c] = @ + 1]
    /\ echo' = [echo EXCEPT ![c] = NoText]
    /\ broadcast(c, active_connections, SaysText(client_id(c), data[c]), c,
                 "reading", "reading")
    /\ UNCHANGED <<active_connections, data, cause, registered, nDisconnect, nDepart,
                   nRead, cancelled, events, close_queued>>

\* send_personal_message returns: the message is broadcast to the others.
EchoDone(c) ==
    /\ pc[c] = "echoing"
    /\ nEcho' = [nEcho EXCEPT ![c] = @ + 1]
    /\ echo' = [echo EXCEPT ![c] = NoText]
    /\ broadcast(c, active_connections, SaysText(client_id(c), data[c]), c,
                 "bcast_msg", "reading")
    /\ UNCHANGED <<active_connections, data, cause, registered, nDisconnect, nDepart,
                   nRead, cancelled, events, close_queued>>

\* send_personal_message raises WebSocketDisconnect (the socket is gone).
EchoClosed(c) ==
    /\ pc[c] = "echoing"
    /\ events < MaxEvents
    /\ events' = events + 1
    /\ cause' = [cause EXCEPT ![c] = "echo_closed"]
    /\ echo' = [echo EXCEPT ![c] = NoText]
    /\ on_disconnect(c)
    /\ UNCHANGED <<data, nRead, nEcho, cancelled, close_queued>>

\* An echo whose exception is swallowed: the handler goes on to the broadcast.
EchoError_swallowed(c) ==
    /\ pc[c] = "echoing"
    /\ events < MaxEvents
    /\ events' = events + 1
    /\ cause' = [cause EXCEPT ![c] = "echo_error"]
    /\ echo' = [echo EXCEPT ![c] = NoText]
    /\ broadcast(c, active_connections, SaysText(client_id(c), data[c]), c,
                 "bcast_msg", "reading")
    /\ UNCHANGED <<active_connections, registered, nDisconnect, nDepart,
                   data, nRead, nEcho, cancelled, close_queued>>

\* send_personal_message raises another exception.
EchoError(c) ==
    /\ pc[c] = "echoing"
    /\ events < MaxEvents
    /\ events' = events + 1
    /\ cause' = [cause EXCEPT ![c] = "echo_error"]
    /\ echo' = [echo EXCEPT ![c] = NoText]
    /\ on_error(c)
    /\ UNCHANGED <<data, nRead, nEcho, cancelled, close_queued>>

\* websocket.close() returns: the finally block runs.
CloseDone(c) ==
    /\ pc[c] = "closing"
    /\ on_error_finally(c)
    /\ UNCHANGED <<data, echo, cause, nRead, nEcho, cancelled, events, close_queued>>

\* A close whose exception skips the cleanup (no finally).
CloseFail_no_finally(c) ==
    /\ pc[c] = "closing"
    /\ events < MaxEvents
    /\ events' = events + 1
    /\ cause' = [cause EXCEPT ![c] = "close_error"]
    /\ pc' = [pc EXCEPT ![c] = "done"]
    /\ UNCHANGED <<active_connections, data, echo, snap, excl, text, send_tasks,
                   task_state, registered, nDisconnect, nDepart, nBroadcast, nRead,
                   nEcho, cancelled, close_queued>>

\* websocket.close() raises: the finally block runs all the same, and the
\* exception leaves the handler after it.
CloseFail(c) ==
    /\ pc[c] = "closing"
    /\ events < MaxEvents
    /\ events' = events + 1
    /\ cause' = [cause EXCEPT ![c] = "close_error"]
    /\ on_error_finally(c)
    /\ UNCHANGED <<data, echo, nRead, nEcho, cancelled, close_queued>>

\* ------------------------------------------- the send tasks of a gather
\* gather wraps every coroutine of send_tasks in a task, and each new task
\* is queued on the event loop (call_soon) in list order: the tasks take
\* their first step one after the other, with no other callback between
\* them, but after whatever was queued before the gather.  In its first
\* step conn.send_text completes at once, raises, or suspends on the
\* transport: "inflight" when the peer is slow and the write settles later,
\* "stalled" when the peer has stopped reading and it never settles.
WriteOutcomes == {"ok", "inflight", "stalled", "failed"}

NotOk(outcome) == Cardinality({i \in DOMAIN outcome : outcome[i] # "ok"})

\* Writes awaited one after the other: the next one starts only when every
\* write before it has settled.
RunTasks_sequential(c) ==
    /\ pc[c] \in InBroadcast
    /\ \E i \in 1..Len(task_state[c]) :
          /\ task_state[c][i] = "pending"
          /\ \A j \in 1..(i - 1) : task_state[c][j] \in Settled
          /\ \E o \in WriteOutcomes :
                /\ o # "ok" => events < MaxEvents
                /\ events' = IF o # "ok" THEN events + 1 ELSE events
                /\ task_state' = [task_state EXCEPT ![c][i] = o]
    /\ UNCHANGED <<active_connections, pc, data, echo, snap, excl, text, send_tasks,
                   cause, registered, nDisconnect, nDepart, nBroadcast, nRead, nEcho,
                   cancelled, close_queued>>

\* Writes taken under a lock per websocket: the tasks of a gather start only
\* when no write of another broadcast to one of their targets is under way.
RunTasks_locked(c) ==
    /\ pc[c] \in InBroadcast
    /\ Len(task_state[c]) > 0
    /\ \A i \in 1..Len(task_state[c]) : task_state[c][i] = "pending"
    /\ \A d \in Conns \ {c} : \A j \in 1..Len(task_state[d]) :
          (send_tasks[d][j] \in Range(send_tasks[c]))
             => task_state[d][j] \notin {"inflight", "stalled"}
    /\ \E outcome \in [1..Len(task_state[c]) -> WriteOutcomes] :
          /\ events + NotOk(outcome) <= MaxEvents
          /\ events' = events + NotOk(outcome)
          /\ task_state' = [task_state EXCEPT ![c] = outcome]
    /\ UNCHANGED <<active_connections, pc, data, echo, snap, excl, text, send_tasks, cause,
                   registered, nDisconnect, nDepart, nBroadcast, nRead, nEcho,
                   cancelled, close_queued>>

RunTasks(c) ==
    /\ pc[c] \in InBroadcast
    /\ Len(task_state[c]) > 0
    /\ \A i \in 1..Len(task_state[c]) : task_state[c][i] = "pending"
    /\ \E outcome \in [1..Len(task_state[c]) -> WriteOutcomes] :
          /\ events + NotOk(outcome) <= MaxEvents
          /\ events' = events + NotOk(outcome)
          /\ task_state' = [task_state EXCEPT ![c] = outcome]
    /\ UNCHANGED <<active_connections, pc, data, echo, snap, excl, text, send_tasks, cause,
                   registered, nDisconnect, nDepart, nBroadcast, nRead, nEcho,
                   cancelled, close_queued>>

\* A suspended write completes or raises.
SettleWrite(c, i, outcome) ==
    /\ pc[c] \in InBroadcast
    /\ i \in 1..Len(task_state[c])
    /\ task_state[c][i] = "inflight"
    /\ outcome \in Settled
    /\ task_state' = [task_state EXCEPT ![c][i] = outcome]
    /\ UNCHANGED <<active_connections, pc, data, echo, snap, excl, text, send_tasks, cause,
                   registered, nDisconnect, nDepart, nBroadcast, nRead, nEcho,
                   cancelled, events, close_queued>>

\* The locals of a broadcast call are gone once its gather has been awaited.
DropFrame(c) ==
    /\ snap' = [snap EXCEPT ![c] = {}]
    /\ excl' = [excl EXCEPT ![c] = None]
    /\ text' = [text EXCEPT ![c] = NoText]
    /\ send_tasks' = [send_tasks EXCEPT ![c] = <<>>]
    /\ task_state' = [task_state EXCEPT ![c] = <<>>]

\* Where the handler goes on when its broadcast returns.
AfterBroadcast(p) == IF p = "bcast_left" THEN "done" ELSE "reading"

\* A gather that hands a task's exception to the handler.
GatherDone_raises(c) ==
    /\ pc[c] \in InBroadcast
    /\ \A i \in 1..Len(task_state[c]) : task_state[c][i] \in Settled
    /\ pc' = [pc EXCEPT ![c] =
            IF \E i \in 1..Len(task_state[c]) : task_state[c][i] = "failed"
            THEN "closing" ELSE AfterBroadcast(pc[c])]
    /\ DropFrame(c)
    /\ UNCHANGED <<active_connections, data, echo, cause, registered, nDisconnect,
                   nDepart, nBroadcast, nRead, nEcho, cancelled, events,
                   close_queued>>

\* A broadcast that drops from the registry the websockets its writes
\* failed on.
GatherDone_prune(c) ==
    /\ pc[c] \in InBroadcast
    /\ \A i \in 1..Len(task_state[c]) : task_state[c][i] \in Settled
    /\ pc' = [pc EXCEPT ![c] = AfterBroadcast(pc[c])]
    /\ DropFrame(c)
    /\ active_connections' = active_connections \
          {send_tasks[c][i] : i \in {k \in 1..Len(task_state[c]) : task_state[c][k] = "failed"}}
    /\ UNCHANGED <<data, echo, cause, registered, nDisconnect, nDepart,
                   nBroadcast, nRead, nEcho, cancelled, events, close_queued>>

\* A gather that resolves as soon as one task has settled.
GatherDone_first(c) ==
    /\ pc[c] \in InBroadcast
    /\ \E i \in 1..Len(task_state[c]) : task_state[c][i] \in Settled
    /\ pc' = [pc EXCEPT ![c] = AfterBroadcast(pc[c])]
    /\ DropFrame(c)
    /\ UNCHANGED <<active_connections, data, echo, cause, registered, nDisconnect, nDepart,
                   nBroadcast, nRead, nEcho, cancelled, events, close_queued>>

\* asyncio.gather(*send_tasks, return_exceptions=True) resolves once every
\* task has settled; the exceptions are results, and broadcast returns.
GatherDone(c) ==
    /\ pc[c] \in InBroadcast
    /\ \A i \in 1..Len(task_state[c]) : task_state[c][i] \in Settled
    /\ pc' = [pc EXCEPT ![c] = AfterBroadcast(pc[c])]
    /\ DropFrame(c)
    /\ UNCHANGED <<active_connections, data, echo, cause, registered, nDisconnect, nDepart,
                   nBroadcast, nRead, nEcho, cancelled, events, close_queued>>

\* ------------------------------------------------------- cancellation
\* The handler's task is cancelled while it is suspended.  CancelledError is
\* a BaseException: neither `except WebSocketDisconnect` nor
\* `except Exception` (in broadcast or in the endpoint) catches it.  Only the
\* finally block around websocket.close() runs on it.  Cancelling a handler
\* that awaits a gather cancels the gather's children: tasks that have not
\* run never run, suspended writes are abandoned.
OnCancelled(c) ==
    IF pc[c] = "closing"
    THEN /\ on_error_finally(c)
         /\ UNCHANGED cause
    ELSE /\ pc' = [pc EXCEPT ![c] = "done"]
         /\ DropFrame(c)
         /\ cause' = [cause EXCEPT ![c] = IF @ = "none" THEN "cancelled" ELSE @]
         /\ UNCHANGED <<active_connections, registered, nDisconnect, nDepart,
                        nBroadcast>>

Cancel(c) ==
    /\ pc[c] \in Suspended
    /\ events < MaxEvents
    /\ events' = events + 1
    /\ cancelled' = [cancelled EXCEPT ![c] = TRUE]
    /\ echo' = [echo EXCEPT ![c] = NoText]
    /\ OnCancelled(c)
    /\ UNCHANGED <<data, nRead, nEcho, close_queued>>

\* ------------------------------------------------------ specification
Next ==
    \E c \in Conns :
        \/ Open(c)
        \/ AcceptDone(c)
        \/ \E d \in Data : ReadText(c, d)
        \/ ReadClosed(c)
        \/ ReadError(c)
        \/ EchoDone(c)
        \/ EchoClosed(c)
        \/ EchoError(c)
        \/ CloseDone(c)
        \/ CloseFail(c)
        \/ RunTasks(c)
        \/ \E i \in 1..Len(task_state[c]), o \in Settled : SettleWrite(c, i, o)
        \/ GatherDone(c)
        \/ Cancel(c)

Spec == Init /\ [][Next]_vars

\* The fairness the event loop gives: a callback that is ready runs (the
\* send tasks of a gather, the handler when its gather has resolved), and a
\* write suspended on a peer that still reads settles.  Nothing is assumed
\* of the peers' frames and closes, of the failures, of the cancels, nor of
\* a stalled write.
BroadcastProgress(c) ==
    \/ RunTasks(c)
    \/ \E i \in 1..Len(task_state[c]) : SettleWrite(c, i, "ok")
    \/ GatherDone(c)

\* The steps of Next, in runs of at most MaxLiveEvents events.
LiveBound == events' <= MaxLiveEvents

LiveNext ==
    \E c \in Conns :
        \/ Open(c) /\ LiveBound
        \/ AcceptDone(c) /\ LiveBound
        \/ (\E d \in Data : ReadText(c, d)) /\ LiveBound
        \/ ReadClosed(c) /\ LiveBound
        \/ ReadError(c) /\ LiveBound
        \/ EchoDone(c) /\ LiveBound
        \/ EchoClosed(c) /\ LiveBound
        \/ EchoError(c) /\ LiveBound
        \/ CloseDone(c) /\ LiveBound
        \/ CloseFail(c) /\ LiveBound
        \/ RunTasks(c) /\ LiveBound
        \/ (\E i \in 1..Len(task_state[c]), o \in Settled : SettleWrite(c, i, o))
              /\ LiveBound
        \/ GatherDone(c) /\ LiveBound
        \/ Cancel(c) /\ LiveBound

LiveSpec ==
    /\ Init /\ [][LiveNext]_vars
    /\ \A c \in Conns : WF_vars(BroadcastProgress(c))

\* ------------------------------------------- the registry on its own
\* The ConnectionManager driven call by call, as any caller of the class may
\* drive it: the add of connect, and disconnect for any websocket, member or
\* not.  A websocket object serves one session: it is not connected again
\* once it has been disconnected.  A call that raises records its exception
\* in cause.
Registry_connect(ws) ==
    /\ nDisconnect[ws] = 0
    /\ active_connections' = connect(active_connections, ws)
    /\ registered' = [registered EXCEPT ![ws] = TRUE]
    /\ UNCHANGED <<pc, data, echo, snap, excl, text, send_tasks, task_state, cause,
                   nDisconnect, nDepart, nBroadcast, nRead, nEcho, cancelled, events,
                   close_queued>>

\* A disconnect written with set.remove, which raises KeyError on a
\* websocket that is no member.
Registry_disconnect_remove(ws) ==
    /\ nDisconnect[ws] < MaxCalls
    /\ nDisconnect' = [nDisconnect EXCEPT ![ws] = @ + 1]
    /\ active_connections' = disconnect(active_connections, ws)
    /\ registered' = [registered EXCEPT ![ws] = FALSE]
    /\ cause' = [cause EXCEPT ![ws] =
                   IF ws \in active_connections THEN @ ELSE "KeyError"]
    /\ UNCHANGED <<pc, data, echo, snap, excl, text, send_tasks, task_state,
                   nDepart, nBroadcast, nRead, nEcho, cancelled, events,
                   close_queued>>

\* manager.disconnect(ws): set.discard, which raises nothing.
Registry_disconnect(ws) ==
    /\ nDisconnect[ws] < MaxCalls
    /\ nDisconnect' = [nDisconnect EXCEPT ![ws] = @ + 1]
    /\ active_connections' = disconnect(active_connections, ws)
    /\ registered' = [registered EXCEPT ![ws] = FALSE]
    /\ UNCHANGED <<pc, data, echo, snap, excl, text, send_tasks, task_state, cause,
                   nDepart, nBroadcast, nRead, nEcho, cancelled, events,
                   close_queued>>

RegistryNext ==
    \E ws \in Conns :
        \/ Registry_connect(ws)
        \/ Registry_disconnect(ws)

RegistrySpec == Init /\ [][RegistryNext]_vars

\* ------------------------------------------ closes that arrive early
\* In Spec a peer's close reaches a handler that waits in receive_text
\* (ReadClosed).  A peer may as well close while its handler is suspended
\* elsewhere: in the gather of a broadcast or in the echo.  The close then
\* waits in the websocket's receive queue, and the handler learns of it at
\* its next receive_text.
PeerCloses(c) ==
    /\ pc[c] \in {"bcast_join", "echoing", "bcast_msg"}
    /\ ~close_queued[c]
    /\ events < MaxEvents
    /\ events' = events + 1
    /\ close_queued' = [close_queued EXCEPT ![c] = TRUE]
    /\ UNCHANGED <<active_connections, pc, data, echo, snap, excl, text, send_tasks,
                   task_state, cause, registered, nDisconnect, nDepart, nBroadcast,
                   nRead, nEcho, cancelled>>

\* receive_text finds the queued close and raises WebSocketDisconnect.
ReadQueuedClose(c) ==
    /\ pc[c] = "reading"
    /\ close_queued[c]
    /\ close_queued' = [close_queued EXCEPT ![c] = FALSE]
    /\ cause' = [cause EXCEPT ![c] = "closed"]
    /\ on_disconnect(c)
    /\ UNCHANGED <<data, echo, nRead, nEcho, cancelled, events>>

\* The steps of the handlers and of their peers, no handler being cancelled,
\* in runs of at most MaxLiveEvents events.  A peer that has closed sends no
\* further frame.
CloseNext ==
    \E c \in Conns :
        \/ Open(c) /\ LiveBound
        \/ AcceptDone(c) /\ LiveBound
        \/ (\E d \in Data : ReadText(c, d)) /\ ~close_queued[c] /\ LiveBound
        \/ ReadClosed(c) /\ ~close_queued[c] /\ LiveBound
        \/ ReadError(c) /\ ~close_queued[c] /\ LiveBound
        \/ ReadQueuedClose(c) /\ LiveBound
        \/ PeerCloses(c) /\ LiveBound
        \/ EchoDone(c) /\ LiveBound
        \/ EchoClosed(c) /\ LiveBound
        \/ EchoError(c) /\ LiveBound
        \/ CloseDone(c) /\ LiveBound
        \/ CloseFail(c) /\ LiveBound
        \/ RunTasks(c) /\ LiveBound
        \/ (\E i \in 1..Len(task_state[c]), o \in Settled : SettleWrite(c, i, o))
              /\ LiveBound
        \/ GatherDone(c) /\ LiveBound

\* A handler whose await can complete is resumed: the accept returns, the
\* echo is written, the close attempt ends, a queued close is read.
HandlerProgress(c) ==
    \/ AcceptDone(c)
    \/ EchoDone(c)
    \/ CloseDone(c)
    \/ ReadQueuedClose(c)

\* Fair scheduling of the handlers and of the send tasks; nothing is assumed
\* of a stalled write.
CloseSpec ==
    /\ Init /\ [][CloseNext]_vars
    /\ \A c \in Conns : WF_vars(BroadcastProgress(c)) /\ WF_vars(HandlerProgress(c))

\* ============================================================== claims
\* The handler c calls manager.broadcast in this step.
Called(c) == nBroadcast'[c] > nBroadcast[c]

\* Task i of c's gather is in one of the states of `states`.
TaskIn(c, i, states) == i <= Len(task_state[c]) /\ task_state[c][i] \in states

Started == {"inflight", "stalled", "ok", "failed"}

\* C1: when the write to one member B of a broadcast's snapshot fails, the
\* write to every other member C (other than exclude) has been started all
\* the same and can complete, and the broadcast returns to its handler
\* normally: the handler goes on as after any broadcast, no exception.
C1_FailureIsolated ==
    /\ [](\A c \in Conns : \A i \in 1..Len(task_state[c]) :
            task_state[c][i] = "failed" =>
              /\ \A d \in snap[c] \ {excl[c], send_tasks[c][i]} :
                   \E j \in 1..Len(task_state[c]) :
                      /\ send_tasks[c][j] = d
                      /\ task_state[c][j] \in Started
                      /\ task_state[c][j] = "inflight" => ENABLED SettleWrite(c, j, "ok")
              /\ (\A j \in 1..Len(task_state[c]) : task_state[c][j] \in Settled)
                   => ENABLED GatherDone(c))
    /\ [][\A c \in Conns :
            ( /\ pc[c] \in InBroadcast
              /\ \E i \in 1..Len(task_state[c]) : task_state[c][i] = "failed"
              /\ pc'[c] # pc[c]
              /\ cancelled'[c] = cancelled[c] )
            => pc'[c] = AfterBroadcast(pc[c]) /\ cause'[c] = cause[c]]_vars

\* C1 witness: in one gather the write to B has failed and the write to C
\* has completed.
C1_Witness ==
    \E c \in Conns : \E i, j \in 1..Len(task_state[c]) :
        /\ i # j
        /\ task_state[c][i] = "failed"
        /\ task_state[c][j] = "ok"

\* C2: a broadcast's send_tasks hold each member of its snapshot other than
\* exclude exactly once and nothing else; the snapshot is the membership set
\* at the call; on an empty registry the call makes no task and returns.
C2_ExactlyOnce ==
    /\ [](\A c \in Conns :
            /\ Len(task_state[c]) = Len(send_tasks[c])
            /\ \A d \in Conns :
                 Count(send_tasks[c], d) = IF d \in snap[c] \ {excl[c]} THEN 1 ELSE 0)
    /\ [][\A c \in Conns : Called(c) =>
            /\ snap'[c] = active_connections'
            /\ active_connections' = {} =>
                 /\ send_tasks'[c] = <<>>
                 /\ pc'[c] = "done"]_vars

\* C2 witness: one handler's departure broadcast found the registry empty and
\* returned at once with no task, and another handler's broadcast of a
\* message is under way with tasks for the others and none for the sender.
C2_Witness ==
    /\ \E c \in Conns :
          /\ pc[c] = "done"
          /\ text[c] = LeftText(client_id(c))
          /\ snap[c] = {}
          /\ send_tasks[c] = <<>>
    /\ \E a \in Conns :
          /\ pc[a] = "bcast_msg"
          /\ excl[a] = a
          /\ a \in snap[a]
          /\ Len(send_tasks[a]) > 0

\* C3: the membership set is exactly the set of websockets connected and not
\* disconnected since, the count health reports is their number, and a
\* second connect of a member leaves the count as it is.
C3_MembershipExact ==
    /\ active_connections = {c \in Conns : registered[c]}
    /\ health = Cardinality({c \in Conns : registered[c]})
    /\ \A c \in active_connections :
          Cardinality(connect(active_connections, c)) = health

\* C3 witness: one websocket was connected and disconnected, another is
\* connected still.
C3_Witness ==
    \E c, d \in Conns :
        /\ nBroadcast[c] >= 1
        /\ nDisconnect[c] = 1
        /\ c \notin active_connections
        /\ d \in active_connections

\* C4 (as claimed): no send task takes its first step, i.e. no write is
\* performed, to a websocket that disconnect has removed.
C4_NoWriteAfterDisconnect ==
    [][\A c \in Conns : \A i \in 1..Len(task_state[c]) :
          ( /\ task_state[c][i] = "pending"
            /\ TaskIn(c, i, Started)' )
          => nDisconnect[send_tasks[c][i]] = 0]_vars

ErrorCauses == {"closed", "echo_closed", "echo_error", "read_error", "close_error"}

\* C5: a handler that left its loop on a closed read, a failed echo or any
\* other exception (a failed close included) has called disconnect exactly
\* once and broadcast exactly one departure notice, the disconnect first.
C5_DisconnectOnce ==
    \A c \in Conns :
        /\ nDisconnect[c] <= 1
        /\ nDepart[c] <= nDisconnect[c]
        /\ pc[c] = "bcast_left" => (text[c].kind # "none" /\ c \notin snap[c])
        /\ (cause[c] \in ErrorCauses /\ pc[c] \in {"bcast_left", "done"}) =>
              /\ nDisconnect[c] = 1
              /\ nDepart[c] = 1
              /\ c \notin active_connections

\* C5 witness: a handler has ended after its close attempt failed.
C5_Witness ==
    \E c \in Conns :
        /\ pc[c] = "done"
        /\ cause[c] = "close_error"
        /\ nDisconnect[c] = 1
        /\ nDepart[c] = 1

\* C6 (as claimed): a registered handler that was cancelled and has ended has
\* called disconnect once, broadcast a departure notice, and is no member.
C6_CancelledHandlerDisconnects ==
    \A c \in Conns :
        (cancelled[c] /\ pc[c] = "done" /\ nBroadcast[c] >= 1) =>
            /\ nDisconnect[c] = 1
            /\ nDepart[c] = 1
            /\ c \notin active_connections

C8_DepartureAfterRemoval ==
    /\ [](\A b \in Conns :
            (pc[b] = "bcast_left" /\ cause[b] = "closed") =>
              /\ b \notin snap[b]
              /\ text[b] = LeftText(client_id(b))
              /\ \A d \in Conns :
                   Count(send_tasks[b], d) = IF d \in snap[b] THEN 1 ELSE 0)
    /\ [][\A b \in Conns :
            (cause'[b] = "closed" /\ cause[b] # "closed") =>
              /\ b \notin active_connections'
              /\ snap'[b] = active_connections \ {b}]_vars

\* C8 witness: B's read reported the close while A and C were registered,
\* and the departure notice has been written to A and to C.
C8_Witness ==
    /\ pc[2] = "bcast_left"
    /\ cause[2] = "closed"
    /\ active_connections = {1, 3}
    /\ send_tasks[2] = <<1, 3>>
    /\ task_state[2] = <<"ok", "ok">>

\* C9: a connect and a broadcast interleaved in any way both go through: an
\* accept that has returned registers the websocket, a broadcast's tasks can
\* run and its gather can resolve; the broadcast's copy is the registry as it
\* was at the call, and D has a task in it exactly if D is in that copy (and
\* is not exclude).
C9_SnapshotConsistent ==
    /\ [](\A c \in Conns :
            /\ pc[c] = "accepting" => ENABLED AcceptDone(c)
            /\ pc[c] \in InBroadcast =>
                 \/ ENABLED RunTasks(c)
                 \/ ENABLED GatherDone(c)
                 \/ \E i \in 1..Len(task_state[c]) :
                       task_state[c][i] \in {"inflight", "stalled"}
            /\ \A d \in Conns :
                 (d \in Range(send_tasks[c])) <=> (d \in snap[c] /\ d # excl[c]))
    /\ [][\A c \in Conns :
            /\ Called(c) => snap'[c] = active_connections'
            /\ (pc[c] = "accepting" /\ pc'[c] # "accepting" /\ ~cancelled'[c]) =>
                 /\ c \in active_connections'
                 /\ c \in snap'[c]
                 /\ pc'[c] = "bcast_join"]_vars

\* C9 witness: D was connected after another handler's broadcast took its
\* copy and before that broadcast's writes ran: D is registered, is not in
\* the copy and has no task in it.
C9_Witness ==
    \E c, d \in Conns :
        /\ c # d
        /\ pc[c] \in InBroadcast
        /\ \A i \in 1..Len(task_state[c]) : task_state[c][i] = "pending"
        /\ d \in active_connections \ snap[c]
        /\ d \notin Range(send_tasks[c])
        /\ pc[d] = "bcast_join"

\* C10: under LiveSpec, whatever writes of a gather are stalled, every task
\* of that gather gets started and every started write that is not itself
\* stalled settles (unless the handler is cancelled first): a state with a
\* task not yet run or a write still in flight leads to one with neither.
Unsettled(c) ==
    \E j \in 1..Len(task_state[c]) : task_state[c][j] \in {"pending", "inflight"}

C10_StallDoesNotBlock ==
    \A c \in Conns : [](Unsettled(c) => <>(~Unsettled(c)))

\* C10 witness: in one gather a write is stalled and another one, started
\* beside it, has completed.
C10_Witness ==
    \E c \in Conns : \E i, j \in 1..Len(task_state[c]) :
        /\ task_state[c][i] = "stalled"
        /\ task_state[c][j] = "ok"

\* The handler c is resumed by its broadcast returning in this step (a step
\* that moves it on without a cancel, the one event that ends an await).
Returned(c) == pc[c] \in InBroadcast /\ pc'[c] # pc[c] /\ events' = events

\* C11: a broadcast returns to the handler only when every task of its gather
\* has settled, the handler going on where it awaited it; and, under
\* LiveSpec, a handler awaiting a broadcast leaves the await unless one of the
\* writes never settles.
C11_ReturnsAfterAllSettle ==
    /\ [][\A c \in Conns : Returned(c) =>
            /\ \A i \in 1..Len(task_state[c]) : task_state[c][i] \in Settled
            /\ pc'[c] = AfterBroadcast(pc[c])]_vars
    /\ \A c \in Conns :
          [](pc[c] \in InBroadcast =>
               <>(\/ pc[c] \notin InBroadcast
                  \/ \E i \in 1..Len(task_state[c]) : task_state[c][i] = "stalled"))

\* C11 witness: the three handlers are back from their join broadcasts and
\* wait for a frame, one of the writes having been slow or having failed.
C11_Witness ==
    /\ \A c \in Conns : pc[c] = "reading" /\ nBroadcast[c] = 1 /\ ~cancelled[c]
    /\ events >= 1

\* C12: the broadcast of a message is called by the handler that has just been
\* resumed by the completed echo of that message (every frame read so far is
\* echoed by then); a frame is read only by a handler whose echoes and
\* broadcasts of the frames before are all over: it awaits no gather.
C12_EchoThenBroadcastThenRead ==
    /\ [](\A c \in Conns :
            /\ pc[c] \in {"reading", "echoing"} => task_state[c] = <<>>
            /\ pc[c] = "bcast_msg" => nEcho[c] = nRead[c] /\ nBroadcast[c] = nRead[c] + 1)
    /\ [][\A c \in Conns :
            /\ (Called(c) /\ text'[c].kind = "says") =>
                  /\ pc[c] = "echoing"
                  /\ echo[c] = EchoText(data[c])
                  /\ nEcho'[c] = nRead[c]
                  /\ text'[c] = SaysText(client_id(c), data[c])
            /\ nRead'[c] # nRead[c] =>
                  /\ pc[c] = "reading"
                  /\ task_state[c] = <<>>
                  /\ nEcho[c] = nRead[c]
                  /\ nBroadcast[c] = nRead[c] + 1
                  /\ pc'[c] = "echoing"
                  /\ nBroadcast'[c] = nBroadcast[c]]_vars

\* C12 witness: the first handler has read, echoed and broadcast one frame,
\* has read and echoed a second one and is broadcasting it to the two others.
C12_Witness ==
    /\ pc[1] = "bcast_msg"
    /\ nRead[1] = 2
    /\ nEcho[1] = 2
    /\ nBroadcast[1] = 3
    /\ send_tasks[1] = <<2, 3>>

\* The echo of the frame c read last raised: the handler left the await of
\* send_personal_message on an exception (a close attempt that fails after it
\* replaces the exception that is leaving the handler).
EchoFailed(c) ==
    /\ pc[c] # "echoing"
    /\ nRead[c] = nEcho[c] + 1
    /\ cause[c] \in {"echo_closed", "echo_error", "close_error"}

\* C13: a handler whose echo raised is out of its loop for good: it reads no
\* further frame, the frame whose echo raised is never broadcast (its
\* broadcasts are the join, one per frame echoed, and the departure notice),
\* and it calls disconnect: at once on WebSocketDisconnect, and on any other
\* exception as soon as its close attempt is over, however that ends.
C13_EchoFailurePropagates ==
    /\ [](\A c \in Conns : EchoFailed(c) =>
            /\ pc[c] \in {"closing", "bcast_left", "done"}
            /\ nBroadcast[c] = 1 + nEcho[c] + nDepart[c]
            /\ pc[c] = "closing" <=> c \in active_connections
            /\ pc[c] = "closing" <=> nDisconnect[c] = 0
            /\ cause[c] = "echo_closed" => pc[c] # "closing")
    /\ [][\A c \in Conns :
            /\ (pc[c] = "echoing" /\ nEcho'[c] = nEcho[c] /\ ~cancelled'[c]
                   /\ pc'[c] # "echoing") => EchoFailed(c)'
            /\ EchoFailed(c) =>
                  /\ EchoFailed(c)'
                  /\ nRead'[c] = nRead[c]
                  /\ Called(c) => text'[c].kind \in {"left the chat", "left the chat(error)"}
                  /\ c \notin active_connections => c \notin active_connections']_vars

\* C13 witness: a handler's direct send to its sender raised, the handler has
\* ended and is out of the registry, while another one is registered still
\* and has been sent no 'says'.
C13_Witness ==
    \E c, d \in Conns :
        /\ EchoFailed(c)
        /\ cause[c] = "echo_error"
        /\ pc[c] = "done"
        /\ nRead[c] = 1
        /\ c \notin active_connections
        /\ d \in active_connections
        /\ pc[d] = "reading"

\* C14: under RegistrySpec, a disconnect of a websocket that is no member
\* (never connected, or disconnected already) leaves the membership set as it
\* is and raises nothing; any disconnect leaves the set without the websocket,
\* and a second one after it changes nothing more.
C14_DisconnectIdempotent ==
    /\ [](\A ws \in Conns : cause[ws] = "none")
    /\ [][\A ws \in Conns : nDisconnect'[ws] # nDisconnect[ws] =>
            /\ ws \notin active_connections => active_connections' = active_connections
            /\ active_connections' = active_connections \ {ws}
            /\ disconnect(active_connections', ws) = active_connections'
            /\ health' = Cardinality(active_connections \ {ws})]_vars

\* C14 witness: one websocket has been disconnected twice, so once at least
\* as a non-member, while another is a member and stays one.
C14_Witness ==
    \E a, c \in Conns :
        /\ nDisconnect[a] = 2
        /\ a \notin active_connections
        /\ nDisconnect[c] = 0
        /\ c \in active_connections
        /\ cause[a] = "none"

\* C15 (as claimed): connect runs as one step, so while a handler is inside
\* its connect call, the call started and the websocket not yet added, no
\* other handler runs: none adds to, removes from or copies the membership
\* set.
C15_ConnectNonSuspending ==
    [][\A c \in Conns :
          (pc[c] = "accepting" /\ pc'[c] = "accepting") =>
              /\ active_connections' = active_connections
              /\ \A d \in Conns : ~Called(d)]_vars

\* Two websockets opened with the same client_id.
SameLabel(a, b) == a # b /\ client_id(a) = client_id(b)

C17_JoinNoticeToAll ==
    /\ [](\A c \in Conns :
            /\ pc[c] = "bcast_join" =>
                  /\ text[c] = JoinedText(client_id(c))
                  /\ excl[c] = None
                  /\ c \in snap[c]
                  /\ nRead[c] = 0 /\ nBroadcast[c] = 1
                  /\ \A d \in Conns :
                        Count(send_tasks[c], d) = IF d \in snap[c] THEN 1 ELSE 0
            /\ nRead[c] > 0 => nBroadcast[c] > 0)
    /\ [][\A c \in Conns :
            /\ (c \notin active_connections /\ c \in active_connections') =>
                  /\ Called(c)
                  /\ pc'[c] = "bcast_join"
                  /\ snap'[c] = active_connections \cup {c}
                  /\ \A d \in active_connections \cup {c} :
                        Count(send_tasks'[c], d) = 1
            /\ (pc[c] = "bcast_join" /\ Returned(c)) =>
                  /\ pc'[c] = "reading"
                  /\ \A i \in 1..Len(task_state[c]) : task_state[c][i] \in Settled
            /\ nRead'[c] # nRead[c] => pc[c] = "reading"]_vars

\* C17 witness: A, B and C joined in that order, and the join broadcast of C
\* has written its notice to A, to B and to C.
C17_Witness ==
    /\ pc[1] = "reading" /\ pc[2] = "reading"
    /\ pc[3] = "bcast_join"
    /\ text[3] = JoinedText(client_id(3))
    /\ send_tasks[3] = <<1, 2, 3>>
    /\ task_state[3] = <<"ok", "ok", "ok">>

\* The tasks of d's gather start, and write j suspends on the transport.
StartInflight(d, j) == RunTasks(d) /\ task_state'[d][j] = "inflight"

\* C18: nothing serializes the writes of two broadcasts to one recipient:
\* while a write of c's broadcast to a websocket is in flight, a write of
\* d's broadcast to the same websocket that is due can start and be in
\* flight beside it (as long as the run has an event left for a slow write).
C18_ConcurrentWritesToOneRecipient ==
    \A c, d \in Conns :
        \A i \in 1..Len(task_state[c]) : \A j \in 1..Len(task_state[d]) :
            ( /\ c # d
              /\ send_tasks[c][i] = send_tasks[d][j]
              /\ task_state[c][i] = "inflight"
              /\ task_state[d][j] = "pending"
              /\ events < MaxEvents )
            => ENABLED StartInflight(d, j)

\* C18 witness: two handlers await their broadcasts, and a write of each to
\* one and the same websocket is in flight.
C18_Witness ==
    \E c, d \in Conns :
        \E i \in 1..Len(task_state[c]) : \E j \in 1..Len(task_state[d]) :
            /\ c # d
            /\ pc[c] \in InBroadcast /\ pc[d] \in InBroadcast
            /\ send_tasks[c][i] = send_tasks[d][j]
            /\ task_state[c][i] = "inflight"
            /\ task_state[d][j] = "inflight"

\* A write of some broadcast to r has failed (and that broadcast is awaited
\* still).
WriteFailedOn(r) ==
    \E c \in Conns : \E i \in 1..Len(task_state[c]) :
        send_tasks[c][i] = r /\ task_state[c][i] = "failed"

\* C19: the membership set changes only in a handler's own connect and its
\* own disconnect: a websocket leaves it only in a step in which its handler
\* calls disconnect, and no step of a send task, of a gather or of an echo
\* that completes changes it.  So a websocket a write has failed on is a
\* member until its handler disconnects it, and a broadcast called meanwhile
\* has a task for it (unless it is the exclude).
C19_SendsKeepMembership ==
    /\ [](\A r \in Conns :
            (WriteFailedOn(r) /\ nDisconnect[r] = 0) => r \in active_connections)
    /\ [][/\ \A r \in Conns :
              /\ (r \in active_connections /\ r \notin active_connections') =>
                    /\ nDisconnect'[r] = nDisconnect[r] + 1
                    /\ pc[r] \in {"reading", "echoing", "closing"}
              /\ (r \notin active_connections /\ r \in active_connections') =>
                    pc[r] = "accepting"
              /\ nEcho'[r] # nEcho[r] => active_connections' = active_connections
              /\ (pc[r] \in InBroadcast /\ pc'[r] = pc[r]
                     /\ task_state'[r] # task_state[r]) =>
                    active_connections' = active_connections
              /\ Returned(r) => active_connections' = active_connections
          /\ \A d, t \in Conns :
                (Called(d) /\ WriteFailedOn(t) /\ t \in active_connections'
                   /\ t # excl'[d]) => Count(send_tasks'[d], t) = 1]_vars

\* C19 witness: a write of one broadcast to a websocket has failed, the
\* websocket is a member still with its handler waiting for a frame, and
\* another handler's broadcast holds a task for it that is yet to run.
C19_Witness ==
    \E c, d, r \in Conns :
        /\ c # d
        /\ \E i \in 1..Len(task_state[c]) :
              send_tasks[c][i] = r /\ task_state[c][i] = "failed"
        /\ r \in active_connections
        /\ pc[r] = "reading"
        /\ pc[d] \in InBroadcast
        /\ \E j \in 1..Len(task_state[d]) :
              send_tasks[d][j] = r /\ task_state[d][j] = "pending"

\* C20 (as claimed): under CloseSpec, a websocket whose peer has closed is
\* eventually out of the membership set, also when a write of the broadcast
\* its handler awaits never settles.
C20_ClosedPeerRemoved ==
    \A c \in Conns : [](close_queued[c] => <>(c \notin active_connections))
====
